---------------------------- MODULE Spec2Model ----------------------------
(***************************************************************************)
(* visual-range (src/main.rs): a single-shot command line calculator of    *)
(* the ground distance and the slant range to the horizon.                 *)
(*                                                                         *)
(* The program computes in f64.  The model computes in IEEE 754 binary64   *)
(* too: a float is NaN, a signed infinity, or a finite value               *)
(* (-1)^s * m * 2^e with m a 53 bit integer (fewer bits only for zero and  *)
(* the subnormals), rounded to nearest, ties to even.  The integers of the *)
(* model checker are 32 bits wide, so a mantissa, and every intermediate   *)
(* product, quotient and root, is an arbitrary precision natural: a        *)
(* little-endian sequence of 15 bit limbs without leading zero limbs.      *)
(***************************************************************************)
EXTENDS Integers, Sequences, FiniteSets, TLC

---------------------------------------------------------------------------
(* Arbitrary precision naturals.                                           *)

Base == 2^15

Max(x, y) == IF x >= y THEN x ELSE y

Min(x, y) == IF x <= y THEN x ELSE y

RECURSIVE IntBitLen(_)
IntBitLen(x) == IF x = 0 THEN 0 ELSE 1 + IntBitLen(x \div 2)

RECURSIVE BTrim(_)
BTrim(a) ==
    IF Len(a) = 0 THEN <<>>
    ELSE IF a[Len(a)] = 0 THEN BTrim(SubSeq(a, 1, Len(a) - 1))
    ELSE a

RECURSIVE BFromInt(_)
BFromInt(n) == IF n = 0 THEN <<>> ELSE <<n % Base>> \o BFromInt(n \div Base)

BLimb(a, i) == IF i <= Len(a) THEN a[i] ELSE 0

BOne == <<1>>

RECURSIVE BAddFrom(_, _, _, _)
BAddFrom(a, b, i, c) ==
    IF i > Len(a) /\ i > Len(b) THEN (IF c = 0 THEN <<>> ELSE <<c>>)
    ELSE LET t == BLimb(a, i) + BLimb(b, i) + c
         IN  <<t % Base>> \o BAddFrom(a, b, i + 1, t \div Base)

BAdd(a, b) == BAddFrom(a, b, 1, 0)

RECURSIVE BSubFrom(_, _, _, _)
BSubFrom(a, b, i, br) ==
    IF i > Len(a) THEN <<>>
    ELSE LET t == a[i] - BLimb(b, i) - br
         IN  IF t < 0 THEN <<t + Base>> \o BSubFrom(a, b, i + 1, 1)
             ELSE <<t>> \o BSubFrom(a, b, i + 1, 0)

\* a - b, for a >= b
BSub(a, b) == BTrim(BSubFrom(a, b, 1, 0))

RECURSIVE BCmpAt(_, _, _)
BCmpAt(a, b, i) ==
    IF i = 0 THEN 0
    ELSE IF a[i] > b[i] THEN 1
    ELSE IF a[i] < b[i] THEN -1
    ELSE BCmpAt(a, b, i - 1)

BCmp(a, b) ==
    IF Len(a) > Len(b) THEN 1
    ELSE IF Len(a) < Len(b) THEN -1
    ELSE BCmpAt(a, b, Len(a))

\* a * d + c, from limb i on, for d, c < Base
RECURSIVE BMulSmallFrom(_, _, _, _)
BMulSmallFrom(a, d, i, c) ==
    IF i > Len(a) THEN (IF c = 0 THEN <<>> ELSE <<c>>)
    ELSE LET t == a[i] * d + c
         IN  <<t % Base>> \o BMulSmallFrom(a, d, i + 1, t \div Base)

BMulSmall(a, d) == IF d = 0 THEN <<>> ELSE BMulSmallFrom(a, d, 1, 0)

BShlLimbs(a, k) == IF Len(a) = 0 THEN <<>> ELSE [i \in 1..k |-> 0] \o a

RECURSIVE BMulFrom(_, _, _)
BMulFrom(a, b, i) ==
    IF i > Len(b) THEN <<>>
    ELSE BAdd(BMulSmall(a, b[i]), BShlLimbs(BMulFrom(a, b, i + 1), 1))

BMul(a, b) == BMulFrom(a, b, 1)

\* a * 2^n
BShl(a, n) == BShlLimbs(BMulSmall(a, 2^(n % 15)), n \div 15)

\* floor(a / 2^n)
BShr(a, n) ==
    LET k == n \div 15
        p == 2^(n % 15)
        q == 2^(15 - (n % 15))
        L == Len(a) - k
    IN  IF L <= 0 THEN <<>>
        ELSE BTrim([i \in 1..L |-> (a[i + k] \div p) + (BLimb(a, i + k + 1) % p) * q])

BBitLen(a) == IF Len(a) = 0 THEN 0 ELSE 15 * (Len(a) - 1) + IntBitLen(a[Len(a)])

\* bit i of a, the lowest being bit 0
BBit(a, i) == (BLimb(a, (i \div 15) + 1) \div 2^(i % 15)) % 2

\* a is a multiple of 2^n
BLowZero(a, n) ==
    /\ \A i \in 1..Min(n \div 15, Len(a)) : a[i] = 0
    /\ BLimb(a, (n \div 15) + 1) % 2^(n % 15) = 0

\* quotient and remainder of limbs 1..i of a (with r above them) by d < 2^16
RECURSIVE BDivSmallAt(_, _, _, _)
BDivSmallAt(a, d, i, r) ==
    IF i = 0 THEN [q |-> <<>>, r |-> r]
    ELSE LET t == r * Base + a[i]
             rest == BDivSmallAt(a, d, i - 1, t % d)
         IN  [q |-> Append(rest.q, t \div d), r |-> rest.r]

BDivSmall(a, d) == BTrim(BDivSmallAt(a, d, Len(a), 0).q)

\* The loops below run for up to 240 steps.  A loop over i = hi down to lo is
\* split in two halves, the first finished (Len(..) >= 0 is always true, and
\* makes the evaluator finish it) before the second starts, so that the
\* evaluation nests only as deep as the logarithm of the number of steps.

\* long division, the step for bit i of a: st.q the quotient and st.r the
\* remainder of the bits above i
BDivStep(a, b, i, st) ==
    LET r2 == BMulSmallFrom(st.r, 2, 1, BBit(a, i))
    IN  IF BCmp(r2, b) >= 0
        THEN [q |-> BMulSmallFrom(st.q, 2, 1, 1), r |-> BSub(r2, b)]
        ELSE [q |-> BMulSmallFrom(st.q, 2, 1, 0), r |-> r2]

RECURSIVE BDivRange(_, _, _, _, _)
BDivRange(a, b, hi, lo, st) ==
    IF hi < lo THEN st
    ELSE IF hi = lo THEN BDivStep(a, b, hi, st)
    ELSE LET mid == (hi + lo + 1) \div 2
             st1 == BDivRange(a, b, hi, mid, st)
         IN  IF Len(st1.q) >= 0 /\ Len(st1.r) >= 0
             THEN BDivRange(a, b, mid - 1, lo, st1)
             ELSE st1

\* quotient q and remainder r of a by b # 0: the highest bits of a, one fewer
\* than b has, are below b and start as the remainder
BDivMod(a, b) ==
    LET lo == Max(0, BBitLen(a) - (BBitLen(b) - 1))
    IN  BDivRange(a, b, lo - 1, 0, [q |-> <<>>, r |-> BShr(a, lo)])

\* square root, the step for bits 2i+1 and 2i of n: st.s the root and st.r
\* the remainder of the bits above them
BSqrtStep(n, i, st) ==
    LET r2 == BMulSmallFrom(st.r, 4, 1, 2 * BBit(n, 2 * i + 1) + BBit(n, 2 * i))
        t == BMulSmallFrom(st.s, 4, 1, 1)
    IN  IF BCmp(r2, t) >= 0
        THEN [s |-> BMulSmallFrom(st.s, 2, 1, 1), r |-> BSub(r2, t)]
        ELSE [s |-> BMulSmallFrom(st.s, 2, 1, 0), r |-> r2]

RECURSIVE BSqrtRange(_, _, _, _)
BSqrtRange(n, hi, lo, st) ==
    IF hi < lo THEN st
    ELSE IF hi = lo THEN BSqrtStep(n, hi, st)
    ELSE LET mid == (hi + lo + 1) \div 2
             st1 == BSqrtRange(n, hi, mid, st)
         IN  IF Len(st1.s) >= 0 /\ Len(st1.r) >= 0
             THEN BSqrtRange(n, mid - 1, lo, st1)
             ELSE st1

\* the root s = floor(sqrt(n)) and the remainder r = n - s^2
BSqrtRem(n) == BSqrtRange(n, (BBitLen(n) + 1) \div 2 - 1, 0, [s |-> <<>>, r |-> <<>>])

---------------------------------------------------------------------------
(* f64: IEEE 754 binary64, round to nearest, ties to even.                 *)

\* bits of the significand, the hidden bit included
MantBits == 52 + 1

\* exponent of the lowest bit of a subnormal, and of the largest finite values
EMin == -(1022 + 52)

EMax == 1023 - 52

FNaN == [k |-> "nan"]

FInf(s) == [k |-> "inf", s |-> s]

FZero(s) == [k |-> "fin", s |-> s, m |-> <<>>, e |-> 0]

IsNaN(a) == a.k = "nan"

IsInf(a) == a.k = "inf"

IsZero(a) == a.k = "fin" /\ Len(a.m) = 0

\* a finite value in canonical form, or the infinity it overflows to
Finish(s, m, e) ==
    IF Len(m) = 0 THEN FZero(s)
    ELSE IF e > EMax THEN FInf(s)
    ELSE [k |-> "fin", s |-> s, m |-> m, e |-> e]

\* (-1)^s * m * 2^e rounded to f64; st says that the exact value lies strictly
\* between m * 2^e and (m + 1) * 2^e (then m has at least MantBits + 2 bits)
Pack(s, m, e, st) ==
    IF Len(m) = 0 THEN FZero(s)
    ELSE LET L == BBitLen(m)
             sh == Max(L - MantBits, EMin - e)
         IN  IF sh <= 0
             THEN LET k == Min(MantBits - L, e - EMin)
                  IN  Finish(s, BShl(m, k), e - k)
             ELSE LET q == BShr(m, sh)
                      half == BBit(m, sh - 1) = 1
                      rest == st \/ ~BLowZero(m, sh - 1)
                      odd == BBit(m, sh) = 1
                      q2 == IF half /\ (rest \/ odd) THEN BAdd(q, BOne) ELSE q
                  IN  IF BBitLen(q2) > MantBits
                      THEN Finish(s, BShr(q2, 1), e + sh + 1)
                      ELSE Finish(s, q2, e + sh)

\* an integer literal n.0, 0 <= n < 2^31
F64FromInt(n) == Pack(0, BFromInt(n), 0, FALSE)

FNeg(a) == IF IsNaN(a) THEN a ELSE [a EXCEPT !.s = 1 - a.s]

\* x + y for finite nonzero x, y with x.e >= y.e
AddFinite(x, y) ==
    LET d == x.e - y.e
    IN  IF d > MantBits + 8
        THEN \* y is below a quarter of the last place of x: it only decides the rounding
             IF x.s = y.s THEN Pack(x.s, BShl(x.m, 2), x.e - 2, TRUE)
             ELSE Pack(x.s, BSub(BShl(x.m, 2), BOne), x.e - 2, TRUE)
        ELSE LET mx == BShl(x.m, d)
                 c == BCmp(mx, y.m)
             IN  IF x.s = y.s THEN Pack(x.s, BAdd(mx, y.m), y.e, FALSE)
                 ELSE IF c = 0 THEN FZero(0)
                 ELSE IF c > 0 THEN Pack(x.s, BSub(mx, y.m), y.e, FALSE)
                 ELSE Pack(y.s, BSub(y.m, mx), y.e, FALSE)

\* a + b
FAdd(a, b) ==
    IF IsNaN(a) \/ IsNaN(b) THEN FNaN
    ELSE IF IsInf(a) THEN (IF IsInf(b) /\ b.s # a.s THEN FNaN ELSE a)
    ELSE IF IsInf(b) THEN b
    ELSE IF IsZero(a) /\ IsZero(b) THEN FZero(IF a.s = 1 /\ b.s = 1 THEN 1 ELSE 0)
    ELSE IF IsZero(a) THEN b
    ELSE IF IsZero(b) THEN a
    ELSE IF a.e >= b.e THEN AddFinite(a, b)
    ELSE AddFinite(b, a)

\* a - b
FSub(a, b) == FAdd(a, FNeg(b))

\* a * b
FMul(a, b) ==
    IF IsNaN(a) \/ IsNaN(b) THEN FNaN
    ELSE LET s == IF a.s = b.s THEN 0 ELSE 1
         IN  IF IsInf(a) \/ IsInf(b)
             THEN (IF IsZero(a) \/ IsZero(b) THEN FNaN ELSE FInf(s))
             ELSE IF IsZero(a) \/ IsZero(b) THEN FZero(s)
             ELSE Pack(s, BMul(a.m, b.m), a.e + b.e, FALSE)

\* a / b
FDiv(a, b) ==
    IF IsNaN(a) \/ IsNaN(b) THEN FNaN
    ELSE LET s == IF a.s = b.s THEN 0 ELSE 1
         IN  IF IsInf(a) THEN (IF IsInf(b) THEN FNaN ELSE FInf(s))
             ELSE IF IsInf(b) THEN FZero(s)
             ELSE IF IsZero(b) THEN (IF IsZero(a) THEN FNaN ELSE FInf(s))
             ELSE IF IsZero(a) THEN FZero(s)
             ELSE LET k == Max(0, MantBits + 2 + BBitLen(b.m) - BBitLen(a.m))
                      d == BDivMod(BShl(a.m, k), b.m)
                  IN  Pack(s, d.q, a.e - b.e - k, Len(d.r) # 0)

\* a.sqrt()
FSqrt(a) ==
    IF IsNaN(a) THEN FNaN
    ELSE IF IsZero(a) THEN a
    ELSE IF a.s = 1 THEN FNaN
    ELSE IF IsInf(a) THEN a
    ELSE LET k0 == Max(0, 2 * MantBits + 4 - BBitLen(a.m))
             k == IF (a.e - k0) % 2 = 0 THEN k0 ELSE k0 + 1
             d == BSqrtRem(BShl(a.m, k))
         IN  Pack(0, d.s, (a.e - k) \div 2, Len(d.r) # 0)

\* -1, 0 or 1 as |a| is below, equal to or above |b|, for a and b not NaN
CmpMag(a, b) ==
    IF IsInf(a) THEN (IF IsInf(b) THEN 0 ELSE 1)
    ELSE IF IsInf(b) THEN -1
    ELSE IF IsZero(a) THEN (IF IsZero(b) THEN 0 ELSE -1)
    ELSE IF IsZero(b) THEN 1
    ELSE IF a.e > b.e THEN 1
    ELSE IF a.e < b.e THEN -1
    ELSE BCmp(a.m, b.m)

\* a < b
FLt(a, b) ==
    IF IsNaN(a) \/ IsNaN(b) THEN FALSE
    ELSE IF IsZero(a) /\ IsZero(b) THEN FALSE
    ELSE IF a.s # b.s THEN a.s = 1
    ELSE IF a.s = 0 THEN CmpMag(a, b) < 0
    ELSE CmpMag(a, b) > 0

\* a == b
FEq(a, b) ==
    IF IsNaN(a) \/ IsNaN(b) THEN FALSE
    ELSE IF IsZero(a) /\ IsZero(b) THEN TRUE
    ELSE a = b

\* a <= b
FLe(a, b) == FLt(a, b) \/ FEq(a, b)

\* a > b
FGt(a, b) == FLt(b, a)

\* a >= b
FGe(a, b) == FLe(b, a)

FOne == F64FromInt(1)

\* acos is evaluated in fixed point, FracBits bits after the binary point, and
\* rounded once at the end: the value of libm's acos up to its last place.
FracBits == 7 * 15

FixOne == BShl(BOne, FracBits)

\* floor(pi * 2^FracBits): pi = 3.243F6A8885A308D313198A2E03707344... in hexadecimal
FixPi == <<23558, 26152, 6296, 12429, 4276, 23202, 4639, 3>>

FixMul(a, b) == BShr(BMul(a, b), FracBits)

\* |x| in fixed point, for a finite x
ToFix(x) ==
    IF x.e + FracBits >= 0 THEN BShl(x.m, x.e + FracBits)
    ELSE BShr(x.m, -(x.e + FracBits))

\* asin x = x + (1/2) x^3/3 + (1*3)/(2*4) x^5/5 + ...: the step for the n-th
\* term.  st.u is the term before it without its divisor 2n - 1, st.sum the
\* series so far, st.done that a term has vanished in fixed point.
AsinStep(x2, n, st) ==
    IF st.done THEN st
    ELSE LET un == BDivSmall(BMulSmall(FixMul(st.u, x2), 2 * n - 1), 2 * n)
             t == BDivSmall(un, 2 * n + 1)
         IN  [u |-> un, sum |-> BAdd(st.sum, t), done |-> Len(t) = 0]

RECURSIVE AsinRange(_, _, _, _)
AsinRange(x2, lo, hi, st) ==
    IF hi < lo THEN st
    ELSE IF hi = lo THEN AsinStep(x2, lo, st)
    ELSE LET mid == (hi + lo) \div 2
             st1 == AsinRange(x2, lo, mid, st)
         IN  IF st1.done THEN st1 ELSE AsinRange(x2, mid + 1, hi, st1)

\* asin of a fixed point x in [0, 1/2]: x^2 <= 1/4, so the n-th term is below
\* 2^-2n and has vanished before n = FracBits
AsinFix(x) == AsinRange(FixMul(x, x), 1, FracBits, [u |-> x, sum |-> x, done |-> FALSE]).sum

\* acos of a fixed point t in [0, 1]: 2 asin(sqrt((1 - t) / 2)) from 1/2 on,
\* pi/2 - asin t below
AcosFix(t) ==
    IF BCmp(t, BShr(FixOne, 1)) >= 0
    THEN BMulSmall(AsinFix(BSqrtRem(BShl(BShr(BSub(FixOne, t), 1), FracBits)).s), 2)
    ELSE BSub(BShr(FixPi, 1), AsinFix(t))

\* x.acos()
FAcos(x) ==
    IF IsNaN(x) \/ IsInf(x) THEN FNaN
    ELSE IF CmpMag(x, FOne) > 0 THEN FNaN
    ELSE IF x = FOne THEN FZero(0)
    ELSE LET a == AcosFix(ToFix(x))
         IN  Pack(0, IF x.s = 1 THEN BSub(FixPi, a) ELSE a, -FracBits, TRUE)

---------------------------------------------------------------------------
(* The program: src/main.rs.                                               *)

\* a decimal literal n / d (d a power of ten): the f64 nearest to it
F64Dec(n, d) == FDiv(F64FromInt(n), F64FromInt(d))

\* meters per foot
CONVERSION_FACTOR_FEET_TO_METERS == FDiv(F64FromInt(1), F64Dec(328084, 100000))

\* miles per meter
CONVERSION_FACTOR_METERS_TO_MILES == FDiv(F64Dec(62137, 100000000), F64FromInt(1))

\* km per meter
CONVERSION_FACTOR_METERS_TO_KM == FDiv(F64FromInt(1), F64FromInt(1000))

\* earth radius in meters
EARTH_RADIUS == F64FromInt(6371009)

\* Option<f64>
None == [some |-> FALSE]

Some(x) == [some |-> TRUE, v |-> x]

\* Option::unwrap_or_default
UnwrapOrDefault(o) == IF o.some THEN o.v ELSE FZero(0)

\* Result<()>
Ok == [ok |-> TRUE]

ErrObserver(x) == [ok |-> FALSE, err |-> "Observer", v |-> x]

ErrSubject(x) == [ok |-> FALSE, err |-> "Subject", v |-> x]

\* Validate with the observer compared by < : a height of exactly 0.0 passes
ValidateObserverStrict(a) ==
    IF FLt(a.observer, FZero(0)) THEN ErrObserver(a.observer)
    ELSE IF a.subject.some /\ FLe(a.subject.v, FZero(0)) THEN ErrSubject(a.subject.v)
    ELSE Ok

\* Validate with the subject compared by < : a subject of exactly 0.0 passes
ValidateSubjectStrict(a) ==
    IF FLe(a.observer, FZero(0)) THEN ErrObserver(a.observer)
    ELSE IF a.subject.some /\ FLt(a.subject.v, FZero(0)) THEN ErrSubject(a.subject.v)
    ELSE Ok

\* Args::validate
Validate(a) ==
    IF FLe(a.observer, FZero(0)) THEN ErrObserver(a.observer)
    ELSE IF a.subject.some /\ FLe(a.subject.v, FZero(0)) THEN ErrSubject(a.subject.v)
    ELSE Ok

\* EffectiveObserverHeight with the radius added before the conversion
EffectiveObserverHeightScaledRadius(a) ==
    IF a.metric
    THEN FAdd(FAdd(a.observer, UnwrapOrDefault(a.subject)), EARTH_RADIUS)
    ELSE LET height == FAdd(a.observer, UnwrapOrDefault(a.subject))
         IN  FMul(FAdd(height, EARTH_RADIUS), CONVERSION_FACTOR_FEET_TO_METERS)

\* EffectiveObserverHeight with the conversion forgotten
EffectiveObserverHeightNoConversion(a) ==
    FAdd(FAdd(a.observer, UnwrapOrDefault(a.subject)), EARTH_RADIUS)

\* EffectiveObserverHeight with only the observer's height converted
EffectiveObserverHeightObserverOnly(a) ==
    IF a.metric
    THEN FAdd(FAdd(a.observer, UnwrapOrDefault(a.subject)), EARTH_RADIUS)
    ELSE FAdd(FAdd(FMul(a.observer, CONVERSION_FACTOR_FEET_TO_METERS),
                   UnwrapOrDefault(a.subject)), EARTH_RADIUS)

\* run: let effective_observer_height
EffectiveObserverHeight(a) ==
    IF a.metric
    THEN FAdd(FAdd(a.observer, UnwrapOrDefault(a.subject)), EARTH_RADIUS)
    ELSE LET height == FAdd(a.observer, UnwrapOrDefault(a.subject))
         IN  FAdd(FMul(height, CONVERSION_FACTOR_FEET_TO_METERS), EARTH_RADIUS)

\* Alpha with the call of acos forgotten
AlphaNoAcos(eff) == FDiv(EARTH_RADIUS, eff)

\* run: let alpha
Alpha(eff) == FAcos(FDiv(EARTH_RADIUS, eff))

\* run: let slant_range_meters
SlantRange(eff) == FSqrt(FSub(FMul(eff, eff), FMul(EARTH_RADIUS, EARTH_RADIUS)))

\* run: let ground_distance_meters, ground_distance_km, ground_distance_miles
GroundDistance(al) == FMul(al, EARTH_RADIUS)

GroundDistanceKm(g) == FMul(g, CONVERSION_FACTOR_METERS_TO_KM)

GroundDistanceMiles(g) == FMul(g, CONVERSION_FACTOR_METERS_TO_MILES)

\* run: println!.  One write of the four numbers; the model keeps the f64 values
\* handed to the formatter, not their decimal text.
Printed(g, mi, km, sl) == [ground_m |-> g, ground_mi |-> mi, ground_km |-> km, slant_m |-> sl]

\* main: eprintln!("{e}"), the Display of Error
ErrorMessage(r) ==
    IF r.err = "Observer"
    THEN [text |-> "observer must have positive non-zero height", v |-> r.v]
    ELSE [text |-> "subject must have positive non-zero height", v |-> r.v]

\* a local of run that is not assigned yet; the exit code of a running process
Unset == [k |-> "unset"]

\* the exit code of a process that has exited with code c
Exit(c) == [code |-> c]

---------------------------------------------------------------------------
(* One invocation, statement by statement.                                 *)

VARIABLES
    args,                        \* Args::parse()
    pc,                          \* the statement of main / run to execute next
    validation,                  \* what args.validate() returned
    effective_observer_height, alpha, slant_range_meters,
    ground_distance_meters, ground_distance_km, ground_distance_miles,
    stdout, stderr,              \* the writes to each stream, in order
    exit_code,
    inputs, outs                 \* SpecPair: the arguments and the outcomes of two invocations

locals == <<effective_observer_height, alpha, slant_range_meters,
            ground_distance_meters, ground_distance_km, ground_distance_miles>>

streams == <<stdout, stderr>>

vars == <<args, pc, validation, locals, streams, exit_code, inputs, outs>>

\* powers of ten up to 10^MaxExp10 are among the heights tried
MaxExp10 == 4

Pow2(n) == Pack(0, BOne, n, FALSE)

\* below half the spacing of the f64 values around EARTH_RADIUS (2^-30)
Tiny == Pow2(-40)

\* its square overflows
Huge == Pow2(600)

MinSubnormal == Pow2(EMin)

Heights ==
    {F64FromInt(10^k) : k \in 0..MaxExp10}
        \cup {F64FromInt(30000), FMul(F64FromInt(100), CONVERSION_FACTOR_FEET_TO_METERS),
              Tiny, Huge, MinSubnormal, FInf(0)}

NotHeights == {FZero(0), FZero(1), FNeg(F64FromInt(5)), FInf(1), FNaN}

Observers == Heights \cup NotHeights

Subjects ==
    {None} \cup {Some(x) : x \in {F64FromInt(1), F64FromInt(100), Tiny, FInf(0),
                                  FZero(0), FZero(1), FNeg(F64FromInt(5)), FNaN}}

ArgSet == [observer : Observers, subject : Subjects, metric : BOOLEAN]

Init ==
    /\ args \in ArgSet
    /\ pc = "validate"
    /\ validation = Unset
    /\ effective_observer_height = Unset
    /\ alpha = Unset
    /\ slant_range_meters = Unset
    /\ ground_distance_meters = Unset
    /\ ground_distance_km = Unset
    /\ ground_distance_miles = Unset
    /\ stdout = <<>>
    /\ stderr = <<>>
    /\ exit_code = Unset
    /\ inputs = <<>>
    /\ outs = <<>>

\* RunValidate with the ? forgotten: the error is dropped and run goes on
RunValidateNoReturn ==
    /\ pc = "validate"
    /\ validation' = Validate(args)
    /\ pc' = "height"
    /\ UNCHANGED <<args, locals, streams, exit_code, inputs, outs>>

\* run: args.validate()?
RunValidate ==
    /\ pc = "validate"
    /\ validation' = Validate(args)
    /\ pc' = IF validation'.ok THEN "height" ELSE "eprintln"
    /\ UNCHANGED <<args, locals, streams, exit_code, inputs, outs>>

RunHeight ==
    /\ pc = "height"
    /\ effective_observer_height' = EffectiveObserverHeight(args)
    /\ pc' = "alpha"
    /\ UNCHANGED <<args, validation, alpha, slant_range_meters, ground_distance_meters,
                   ground_distance_km, ground_distance_miles, streams, exit_code,
                   inputs, outs>>

RunAlpha ==
    /\ pc = "alpha"
    /\ alpha' = Alpha(effective_observer_height)
    /\ pc' = "slant"
    /\ UNCHANGED <<args, validation, effective_observer_height, slant_range_meters,
                   ground_distance_meters, ground_distance_km, ground_distance_miles,
                   streams, exit_code, inputs, outs>>

RunSlant ==
    /\ pc = "slant"
    /\ slant_range_meters' = SlantRange(effective_observer_height)
    /\ pc' = "ground"
    /\ UNCHANGED <<args, validation, effective_observer_height, alpha,
                   ground_distance_meters, ground_distance_km, ground_distance_miles,
                   streams, exit_code, inputs, outs>>

RunGround ==
    /\ pc = "ground"
    /\ ground_distance_meters' = GroundDistance(alpha)
    /\ ground_distance_km' = GroundDistanceKm(ground_distance_meters')
    /\ ground_distance_miles' = GroundDistanceMiles(ground_distance_meters')
    /\ pc' = "println"
    /\ UNCHANGED <<args, validation, effective_observer_height, alpha,
                   slant_range_meters, streams, exit_code, inputs, outs>>

\* RunPrint with one println! for each of the two sections
RunPrintTwice ==
    /\ pc = "println"
    /\ stdout' = stdout \o <<Printed(ground_distance_meters, ground_distance_miles,
                                     ground_distance_km, Unset),
                             Printed(Unset, Unset, Unset, slant_range_meters)>>
    /\ pc' = "return"
    /\ UNCHANGED <<args, validation, locals, stderr, exit_code, inputs, outs>>

\* run: println!
RunPrint ==
    /\ pc = "println"
    /\ stdout' = Append(stdout, Printed(ground_distance_meters, ground_distance_miles,
                                        ground_distance_km, slant_range_meters))
    /\ pc' = "return"
    /\ UNCHANGED <<args, validation, locals, stderr, exit_code, inputs, outs>>

\* main: run returned Ok(()), main returns
MainReturn ==
    /\ pc = "return"
    /\ exit_code' = Exit(0)
    /\ pc' = "exited"
    /\ UNCHANGED <<args, validation, locals, streams, inputs, outs>>

\* main: eprintln!("{e}")
MainEprintln ==
    /\ pc = "eprintln"
    /\ stderr' = Append(stderr, ErrorMessage(validation))
    /\ pc' = "exit"
    /\ UNCHANGED <<args, validation, locals, stdout, exit_code, inputs, outs>>

\* main: process::exit(1)
MainExit ==
    /\ pc = "exit"
    /\ exit_code' = Exit(1)
    /\ pc' = "exited"
    /\ UNCHANGED <<args, validation, locals, streams, inputs, outs>>

Next ==
    \/ RunValidate
    \/ RunHeight
    \/ RunAlpha
    \/ RunSlant
    \/ RunGround
    \/ RunPrint
    \/ MainReturn
    \/ MainEprintln
    \/ MainExit

Spec == Init /\ [][Next]_vars

---------------------------------------------------------------------------
(* Two invocations, one after the other: main as a function of its         *)
(* arguments.                                                              *)

\* what one invocation leaves behind: main applied to a
Run(a) ==
    LET v == Validate(a)
    IN  IF ~v.ok
        THEN [exit_code |-> Exit(1), stdout |-> <<>>, stderr |-> <<ErrorMessage(v)>>,
              effective_observer_height |-> Unset]
        ELSE LET eff == EffectiveObserverHeight(a)
                 al == Alpha(eff)
                 sl == SlantRange(eff)
                 g == GroundDistance(al)
             IN  [exit_code |-> Exit(0),
                  stdout |-> <<Printed(g, GroundDistanceMiles(g), GroundDistanceKm(g), sl)>>,
                  stderr |-> <<>>,
                  effective_observer_height |-> eff]

\* two of the heights are below the spacing of the f64 values around
\* EARTH_RADIUS, one has a square that overflows, one is the smallest f64
PairObservers ==
    {F64FromInt(1), F64FromInt(100), Tiny, Pow2(-39), Huge, MinSubnormal, FNaN}

PairSubjects ==
    {None} \cup {Some(x) : x \in {FZero(0), F64FromInt(1), F64FromInt(100), FNaN}}

PairArgSet == [observer : PairObservers, subject : PairSubjects, metric : BOOLEAN]

InitPair ==
    /\ inputs = <<>>
    /\ outs = <<>>
    /\ args = Unset
    /\ pc = "pair"
    /\ validation = Unset
    /\ effective_observer_height = Unset
    /\ alpha = Unset
    /\ slant_range_meters = Unset
    /\ ground_distance_meters = Unset
    /\ ground_distance_km = Unset
    /\ ground_distance_miles = Unset
    /\ stdout = <<>>
    /\ stderr = <<>>
    /\ exit_code = Unset

\* the program is invoked with arguments a, and runs to its end
Invoke(a) ==
    /\ pc = "pair"
    /\ Len(outs) < 2
    /\ inputs' = Append(inputs, a)
    /\ outs' = Append(outs, Run(a))
    /\ UNCHANGED <<args, pc, validation, locals, streams, exit_code>>

\* the arguments of an invocation in feet, given in meters with --metric
InMeters(a) ==
    [observer |-> FMul(a.observer, CONVERSION_FACTOR_FEET_TO_METERS),
     subject |-> IF a.subject.some
                 THEN Some(FMul(a.subject.v, CONVERSION_FACTOR_FEET_TO_METERS))
                 ELSE None,
     metric |-> TRUE]

\* the second invocation may also be the first one's, in meters
NextPair ==
    \E a \in PairArgSet \cup (IF Len(inputs) = 1 /\ ~inputs[1].metric
                              THEN {InMeters(inputs[1])} ELSE {}) : Invoke(a)

SpecPair == InitPair /\ [][NextPair]_vars

---------------------------------------------------------------------------
(* The claims.                                                             *)

NonPositive(x) == FLe(x, FZero(0))

Positive(x) == FGt(x, FZero(0))

Invalid(a) == NonPositive(a.observer) \/ (a.subject.some /\ NonPositive(a.subject.v))

LocalsUnset ==
    /\ effective_observer_height = Unset
    /\ alpha = Unset
    /\ slant_range_meters = Unset
    /\ ground_distance_meters = Unset
    /\ ground_distance_km = Unset
    /\ ground_distance_miles = Unset

\* C1: validate fails with Error::Observer carrying the observer's height for
\* every observer height <= 0.0 (0.0 and -0.0 included), whatever the subject
\* and the metric flag are; for every observer height > 0.0 it does not fail
\* with Error::Observer.
C1_ObserverValidation ==
    validation # Unset =>
        /\ NonPositive(args.observer) => validation = ErrObserver(args.observer)
        /\ Positive(args.observer) => (validation.ok \/ validation.err # "Observer")

\* C1's case: an observer of exactly 0.0 with an invalid subject too
C1_Witness ==
    /\ args.observer = FZero(0)
    /\ args.subject = Some(FNeg(F64FromInt(5)))
    /\ validation = ErrObserver(FZero(0))

\* C2: with an observer height > 0.0, validate fails, with Error::Subject
\* carrying the subject's height, exactly when a subject is given and is
\* <= 0.0; without a subject the effective height is the one of a subject of
\* exactly 0.0.
C2_SubjectValidation ==
    /\ (validation # Unset /\ Positive(args.observer)) =>
           /\ (~validation.ok) <=> (args.subject.some /\ NonPositive(args.subject.v))
           /\ (~validation.ok) => validation = ErrSubject(args.subject.v)
    /\ (effective_observer_height # Unset /\ ~args.subject.some) =>
           effective_observer_height
               = EffectiveObserverHeight([args EXCEPT !.subject = Some(FZero(0))])

\* C2's case: a valid observer and a subject of exactly 0.0
C2_Witness ==
    /\ Positive(args.observer)
    /\ args.subject = Some(FZero(0))
    /\ validation = ErrSubject(FZero(0))

\* C4: nothing is computed or written before the validation; after a failed
\* validation nothing is computed and nothing is written to stdout, the error
\* message is written to stderr and the exit code is 1; the exit code of a
\* run with valid arguments is 0.
C4_FailFast ==
    /\ validation = Unset =>
           (LocalsUnset /\ stdout = <<>> /\ stderr = <<>> /\ exit_code = Unset)
    /\ (validation # Unset /\ ~validation.ok) =>
           (LocalsUnset /\ stdout = <<>> /\ pc \in {"eprintln", "exit", "exited"})
    /\ (pc = "exited" /\ Invalid(args)) =>
           (exit_code = Exit(1) /\ stderr = <<ErrorMessage(validation)>> /\ stdout = <<>>)
    /\ (pc = "exited" /\ ~Invalid(args)) => exit_code = Exit(0)
    /\ exit_code # Unset => pc = "exited"
    /\ pc = "exit" => Len(stderr) = 1

\* C4's case: a run that failed the validation has exited
C4_Witness ==
    /\ pc = "exited"
    /\ Invalid(args)
    /\ exit_code = Exit(1)
    /\ Len(stderr) = 1

\* C5, as claimed: every invocation writes stdout exactly once, and nothing
\* else.
C5_Original == pc = "exited" => (Len(stdout) = 1 /\ stderr = <<>>)

\* C5, amended: an invocation that passes the validation writes stdout exactly
\* once and nothing else; one that fails it writes nothing to stdout and one
\* message to stderr.
C5_OneWrite ==
    /\ Len(stdout) <= 1
    /\ Len(stderr) <= 1
    /\ pc = "exited" =>
           IF exit_code = Exit(0) THEN Len(stdout) = 1 /\ stderr = <<>>
           ELSE stdout = <<>> /\ Len(stderr) = 1

\* C5's case: a successful run has exited
C5_Witness ==
    /\ pc = "exited"
    /\ exit_code = Exit(0)
    /\ Len(stdout) = 1

\* C6: for every validated input the effective observer height is at least
\* EARTH_RADIUS, EARTH_RADIUS / effective_observer_height lies in (0, 1] and
\* effective_observer_height^2 - EARTH_RADIUS^2 is not negative.
C6_Domain ==
    effective_observer_height # Unset =>
        LET x == FDiv(EARTH_RADIUS, effective_observer_height)
            radicand == FSub(FMul(effective_observer_height, effective_observer_height),
                             FMul(EARTH_RADIUS, EARTH_RADIUS))
        IN  /\ FGe(effective_observer_height, EARTH_RADIUS)
            /\ FGt(x, FZero(0))
            /\ FLe(x, FOne)
            /\ FGe(radicand, FZero(0))

\* C7: the effective observer height is observer + subject (or 0.0)
\* + 6371009 with --metric, and (observer + subject (or 0.0)) * (1 / 3.28084)
\* + 6371009 without: the radius is never scaled.  30000 feet are
\* 0x1.8568a3ffb3495p+22 = 6380152.999707392 m from the center, 30000 m are
\* 6401009 m.
C7_EffectiveHeight ==
    /\ effective_observer_height # Unset =>
           LET sum == FAdd(args.observer,
                           IF args.subject.some THEN args.subject.v ELSE FZero(0))
               feet == FDiv(FOne, F64Dec(328084, 100000))
           IN  effective_observer_height
                   = IF args.metric THEN FAdd(sum, F64FromInt(6371009))
                     ELSE FAdd(FMul(sum, feet), F64FromInt(6371009))
    /\ (effective_observer_height # Unset
            /\ args = [observer |-> F64FromInt(30000), subject |-> None, metric |-> FALSE]) =>
           effective_observer_height
               = [k |-> "fin", s |-> 0, m |-> <<13495, 32758, 23160, 194>>, e |-> -30]
    /\ (effective_observer_height # Unset
            /\ args = [observer |-> F64FromInt(30000), subject |-> None, metric |-> TRUE]) =>
           effective_observer_height = F64FromInt(6401009)

\* C7's case: 30000 feet, no subject
C7_Witness ==
    /\ args = [observer |-> F64FromInt(30000), subject |-> None, metric |-> FALSE]
    /\ effective_observer_height
           = [k |-> "fin", s |-> 0, m |-> <<13495, 32758, 23160, 194>>, e |-> -30]

\* what an invocation printed
Ground(o) == o.stdout[1].ground_m

Slant(o) == o.stdout[1].slant_m

BothRan == Len(outs) = 2

BothPrinted == BothRan /\ outs[1].exit_code = Exit(0) /\ outs[2].exit_code = Exit(0)

\* C3: for a valid observer height, the run without a subject and the run
\* with a subject of 0 end alike and print the same.
C3_ZeroSubjectDefault ==
    (/\ BothRan
     /\ Positive(inputs[1].observer)
     /\ inputs[1].subject = None
     /\ inputs[2] = [inputs[1] EXCEPT !.subject = Some(FZero(0))])
        => (outs[1].exit_code = outs[2].exit_code /\ outs[1].stdout = outs[2].stdout)

\* two valid runs that differ in the observer's height only, the second one's
\* being the larger
HigherObserver ==
    /\ BothPrinted
    /\ inputs[1].subject = inputs[2].subject
    /\ inputs[1].metric = inputs[2].metric
    /\ FLt(inputs[1].observer, inputs[2].observer)

\* C8, as claimed: the ground distance and the slant range of the higher
\* observer are strictly larger.
C8_StrictlyIncreasing ==
    HigherObserver =>
        (FLt(Ground(outs[1]), Ground(outs[2])) /\ FLt(Slant(outs[1]), Slant(outs[2])))

\* C8, amended: the ground distance and the slant range of the higher observer
\* are never smaller.
C8_NeverDecreasing ==
    HigherObserver =>
        (~FLt(Ground(outs[2]), Ground(outs[1])) /\ ~FLt(Slant(outs[2]), Slant(outs[1])))

\* C8's case: 1 and 100, where both results do grow
C8_Witness ==
    /\ HigherObserver
    /\ inputs[1].observer = F64FromInt(1)
    /\ inputs[2].observer = F64FromInt(100)
    /\ FLt(Ground(outs[1]), Ground(outs[2]))
    /\ FLt(Slant(outs[1]), Slant(outs[2]))

\* a run in feet with a valid observer and no subject, then the run with the
\* same height in meters
FeetThenMeters ==
    /\ BothRan
    /\ ~inputs[1].metric
    /\ inputs[1].subject = None
    /\ Positive(inputs[1].observer)
    /\ inputs[2] = InMeters(inputs[1])

\* the spec's floating tolerance, 1e-6 relative
Tolerance == F64Dec(1, 1000000)

Abs(x) == IF FLt(x, FZero(0)) THEN FNeg(x) ELSE x

Within(x, y) ==
    \/ FEq(x, y)
    \/ FLe(Abs(FSub(x, y)), FMul(Tolerance, Abs(x)))

Exchanged ==
    /\ BothRan
    /\ inputs[1].subject.some
    /\ Positive(inputs[1].observer)
    /\ Positive(inputs[1].subject.v)
    /\ inputs[2] = [inputs[1] EXCEPT !.observer = inputs[1].subject.v,
                                     !.subject = Some(inputs[1].observer)]

\* C10: both runs pass the validation and have the same effective observer
\* height, ground distance and slant range.
C10_SumOnly ==
    Exchanged =>
        /\ outs[1].exit_code = Exit(0)
        /\ outs[2].exit_code = Exit(0)
        /\ outs[1].effective_observer_height = outs[2].effective_observer_height
        /\ Ground(outs[1]) = Ground(outs[2])
        /\ Slant(outs[1]) = Slant(outs[2])

\* C10's case: 1 and 100 exchanged
C10_Witness ==
    /\ Exchanged
    /\ inputs[1].observer = F64FromInt(1)
    /\ inputs[1].subject = Some(F64FromInt(100))
    /\ outs[1].stdout = outs[2].stdout

=============================================================================
